---- MODULE Spec2Model ----
(***************************************************************************)
(* Model of wifidirect-legacy-ap (src/src/lib.rs): WlanHostedNetworkHelper *)
(* (new / stop), the publisher status relay of start(), the connection     *)
(* listener of start_listener(), the mpsc notification channel and the     *)
(* forwarding thread spawned by new().  The WinRT publisher, listener and  *)
(* device objects are the environment: their status changes and events are *)
(* nondeterministic actions.                                               *)
(***************************************************************************)
EXTENDS Integers, Sequences, FiniteSets, TLC

\* ---------------------------------------------------------------- bounds
MaxStops == 2       \* stop() calls in one run, over all callers
MaxReq == 1         \* connection requests the listener receives in one run

\* the two threads that may call stop() on the shared Session concurrently
Callers == {1, 2}
Reqs == 1..MaxReq
SSIDs == {"TestNet", "WiFiDirectTestNetwork"}

\* ------------------------------------------------------- notification text
MsgCreated == "Hosted network created"
MsgStopped == "Hosted network stopped"
MsgStarted(s) == "Hosted network " \o s \o " has started"
MsgAborted(reason) == "Hosted network aborted: " \o reason
MsgConnReq == "Connection requested..."
MsgNotRunning == "Stop called but WiFiDirectAdvertisementPublisher is not running"
MsgThreadExit == "WiFiDirect thread exiting: " \o "receiving on a closed channel"

\* what args.Error() gives the Aborted arm: a WiFiDirectError ("Other": any
\* further i32 of the newtype), or "CallFailed": the call returned Err
ErrorCodes == {"RadioNotAvailable", "ResourceInUse", "Success", "Other", "CallFailed"}

\* faulty variant: an unexpected code is reported instead of panicking
AbortReason_ReportsUnknown(err) ==
    CASE err = "RadioNotAvailable" -> "Radio not available"
      [] err = "ResourceInUse" -> "Resource in use"
      [] err = "Success" -> "Success"
      [] OTHER -> "Unknown"

\* the match of the Aborted arm: the reason text, or "panic"
AbortReason(err) ==
    CASE err = "RadioNotAvailable" -> "Radio not available"
      [] err = "ResourceInUse" -> "Resource in use"
      [] err = "Success" -> "Success"
      [] OTHER -> "panic"

\* ------------------------------------------------------ the steps of new()
\* start()'s calls in program order; the thread spawn follows the last one
NewSteps == << "PublisherNew", "StatusChanged", "Advertisement",
               "SetIsAutonomousGroupOwnerEnabled", "LegacySettings",
               "SetIsEnabled", "SetSsid", "PasswordCredentialNew",
               "SetPassword", "SetPassphrase", "Start" >>
NumSteps == Len(NewSteps)
StepNo(name) == CHOOSE i \in 1..NumSteps : NewSteps[i] = name
\* a failure of Advertisement() is an expect(): it panics instead of returning
StepPanics(i) == NewSteps[i] = "Advertisement"

VARIABLES
    ssid,        \* the ssid given to new()
    newPc,       \* next step of start() to run; NumSteps+1: start() returned
    newResult,   \* "running", "ok", "err", "panic"
    failedStep,  \* 0, or the step of start() that failed
    executed,    \* the steps of start() that were called
    session,     \* "none", "live", "dropped": the WlanHostedNetworkHelper value
    pubStatus,   \* publisher.Status(): "Created", "Started", "Stopped", "Aborted"
    startCmds,   \* publisher.Start() calls that succeeded
    stopCmds,    \* publisher.Stop() calls that succeeded
    evQ,         \* status events raised and not yet handed to the handler
    relayPc,     \* "idle", "sendStarted": position of the status handler
    relayTx,     \* the handler's Sender is alive
    abortErr,    \* "none", or what args.Error() gave the Aborted arm
    panicked,    \* a callback has panicked
    arms,        \* the match arms the status handler entered, in order
    listener,    \* "none", "installed", "released": the connection handler
    rxState,     \* "none", "new", "thread", "dropped": owner of the Receiver
    chan,        \* messages queued in the channel
    sent,        \* every message ever sent on the channel, in order
    threadPc,    \* "none", "recv", "output", "exiting", "exited"
    threadMsg,   \* the message the forwarding thread holds
    sink,        \* the messages the UI received, in order
    stopCalls,   \* stop() calls made so far
    lock,        \* 0, or the caller holding the publisher mutex
    pcStop,      \* per caller: position in stop()
    call,        \* per caller: what its current/last stop() call did
    reqPc,       \* per request: position in the connection chain
    asyncStatus, \* per request: "none", or the AsyncStatus its completion got
    watchSeen,   \* per request: last status its watcher observed
    procAborted  \* a panic took the process down

vars == << ssid, newPc, newResult, failedStep, executed, session, pubStatus,
           startCmds, stopCmds, evQ, relayPc, relayTx, abortErr, panicked,
           arms, listener, rxState, chan, sent, threadPc, threadMsg, sink,
           stopCalls, lock, pcStop, call, reqPc, asyncStatus, watchSeen,
           procAborted >>

newVars == << newPc, newResult, failedStep, executed, session >>
pubVars == << pubStatus, startCmds, stopCmds, evQ >>
relayVars == << relayPc, relayTx, abortErr, panicked, arms >>
chanVars == << rxState, chan, sent >>
threadVars == << threadPc, threadMsg >>
stopVars == << stopCalls, lock, pcStop, call >>
reqVars == << reqPc, asyncStatus, watchSeen >>

NoCall == [status |-> "unread", issued |-> FALSE, wrote |-> "", result |-> "none",
           contended |-> FALSE]

Init ==
    /\ ssid \in SSIDs
    /\ newPc = 1
    /\ newResult = "running"
    /\ failedStep = 0
    /\ executed = {}
    /\ session = "none"
    /\ pubStatus = "Created"
    /\ startCmds = 0
    /\ stopCmds = 0
    /\ evQ = << >>
    /\ relayPc = "idle"
    /\ relayTx = FALSE
    /\ abortErr = "none"
    /\ panicked = FALSE
    /\ arms = << >>
    /\ listener = "none"
    /\ rxState = "none"
    /\ chan = << >>
    /\ sent = << >>
    /\ threadPc = "none"
    /\ threadMsg = ""
    /\ sink = << >>
    /\ stopCalls = 0
    /\ lock = 0
    /\ pcStop = [c \in Callers |-> "idle"]
    /\ call = [c \in Callers |-> NoCall]
    /\ reqPc = [r \in Reqs |-> "none"]
    /\ asyncStatus = [r \in Reqs |-> "none"]
    /\ watchSeen = [r \in Reqs |-> "none"]
    /\ procAborted = FALSE

\* ------------------------------------------------------------ the channel
\* live Sender handles: the status handler's and the listener handler's clone
Senders == (IF relayTx THEN 1 ELSE 0) + (IF listener = "installed" THEN 1 ELSE 0)
RxAlive == rxState \in {"new", "thread"}

\* ---------------------------------------------------------------- new()
\* a call of start() that succeeds
NewStepOk ==
    /\ ~procAborted
    /\ newResult = "running"
    /\ newPc <= NumSteps
    /\ executed' = executed \cup {newPc}
    /\ newPc' = newPc + 1
    /\ IF NewSteps[newPc] = "StatusChanged"
         THEN relayTx' = TRUE /\ rxState' = "new"
         ELSE UNCHANGED << relayTx, rxState >>
    /\ IF NewSteps[newPc] = "Start"
         THEN startCmds' = startCmds + 1 /\ evQ' = Append(evQ, "Created")
         ELSE UNCHANGED << startCmds, evQ >>
    /\ UNCHANGED << ssid, newResult, failedStep, session, pubStatus, stopCmds,
                    relayPc, abortErr, panicked, arms, listener, chan, sent,
                    threadVars, sink, stopVars, reqVars, procAborted >>

\* faulty variant: the error of a step is ignored and start() goes on
NewStepFail_Ignored ==
    /\ ~procAborted
    /\ newResult = "running"
    /\ newPc <= NumSteps
    /\ executed' = executed \cup {newPc}
    /\ failedStep' = newPc
    /\ newPc' = newPc + 1
    /\ UNCHANGED << ssid, newResult, session, pubVars, relayVars, listener,
                    chanVars, threadVars, sink, stopVars, reqVars, procAborted >>

\* a call of start() that fails: `?` returns the error (Advertisement panics);
\* the publisher, its handler and the receiver are dropped with the frame
NewStepFail ==
    /\ ~procAborted
    /\ newResult = "running"
    /\ newPc <= NumSteps
    /\ executed' = executed \cup {newPc}
    /\ failedStep' = newPc
    /\ newResult' = IF StepPanics(newPc) THEN "panic" ELSE "err"
    /\ relayTx' = FALSE
    /\ rxState' = IF rxState = "none" THEN "none" ELSE "dropped"
    /\ UNCHANGED << ssid, newPc, session, pubVars, relayPc, abortErr, panicked,
                    arms, listener,
                    chan, sent, threadVars, sink, stopVars, reqVars, procAborted >>

\* faulty variant: no thread takes the receiver, which is dropped when new()
\* returns
NewSpawn_NoThread ==
    /\ ~procAborted
    /\ newResult = "running"
    /\ newPc = NumSteps + 1
    /\ newResult' = "ok"
    /\ session' = "live"
    /\ rxState' = "dropped"
    /\ threadPc' = "exited"
    /\ UNCHANGED << ssid, newPc, failedStep, executed, pubVars, relayVars,
                    listener, chan, sent, threadMsg, sink, stopVars, reqVars,
                    procAborted >>

\* start() returned Ok: spawn the forwarding thread, build the Session
NewSpawn ==
    /\ ~procAborted
    /\ newResult = "running"
    /\ newPc = NumSteps + 1
    /\ newResult' = "ok"
    /\ session' = "live"
    /\ rxState' = "thread"
    /\ threadPc' = "recv"
    /\ UNCHANGED << ssid, newPc, failedStep, executed, pubVars, relayVars,
                    listener, chan, sent, threadMsg, sink, stopVars, reqVars,
                    procAborted >>

\* ------------------------------------------------- the publisher (the OS)
\* the publisher exists and was started
PublisherRunning == startCmds > 0 /\ session # "dropped" /\ ~procAborted

\* the OS brings the advertisement up: Created -> Started, and raises the event
OSStarted ==
    /\ PublisherRunning
    /\ pubStatus = "Created"
    /\ pubStatus' = "Started"
    /\ evQ' = Append(evQ, "Started")
    /\ UNCHANGED << ssid, newVars, startCmds, stopCmds, relayVars, listener,
                    chanVars, threadVars, sink, stopVars, reqVars, procAborted >>

\* the OS aborts the advertisement
OSAborted ==
    /\ PublisherRunning
    /\ pubStatus \in {"Created", "Started"}
    /\ pubStatus' = "Aborted"
    /\ evQ' = Append(evQ, "Aborted")
    /\ UNCHANGED << ssid, newVars, startCmds, stopCmds, relayVars, listener,
                    chanVars, threadVars, sink, stopVars, reqVars, procAborted >>

\* ------------------------------------------- publisher_status_changed_callback
\* tx.send(m).expect(..): queue m, or panic when the receiver is gone
SendOk(m) == chan' = Append(chan, m) /\ sent' = Append(sent, m)
\* a panic in a callback: the callback ends; unwinding out of the handler may
\* take the whole process down
Panics == panicked' = TRUE /\ procAborted' \in BOOLEAN

RelayReady ==
    /\ ~procAborted
    /\ relayTx
    /\ relayPc = "idle"
    /\ evQ # << >>

\* args.Status()? fails: the callback returns the error
RelayStatusErr ==
    /\ RelayReady
    /\ evQ' = Tail(evQ)
    /\ UNCHANGED << ssid, newVars, pubStatus, startCmds, stopCmds, relayVars,
                    listener, chanVars, threadVars, sink, stopVars, reqVars,
                    procAborted >>

\* the arms that only send a fixed text
RelaySimple(st, m) ==
    /\ RelayReady
    /\ Head(evQ) = st
    /\ evQ' = Tail(evQ)
    /\ arms' = Append(arms, st)
    /\ IF RxAlive
         THEN SendOk(m) /\ UNCHANGED << panicked, procAborted >>
         ELSE UNCHANGED << chan, sent >> /\ Panics
    /\ UNCHANGED << ssid, newVars, pubStatus, startCmds, stopCmds, relayPc,
                    relayTx, abortErr, listener, rxState, threadVars, sink,
                    stopVars, reqVars >>

\* faulty variant: the listener is installed by the Created arm already
RelayCreated_InstallsListener ==
    /\ RelayReady
    /\ Head(evQ) = "Created"
    /\ evQ' = Tail(evQ)
    /\ arms' = Append(arms, "Created")
    /\ listener' = "installed"
    /\ SendOk(MsgCreated)
    /\ UNCHANGED << ssid, newVars, pubStatus, startCmds, stopCmds, relayPc,
                    relayTx, abortErr, panicked, rxState, threadVars, sink,
                    stopVars, reqVars, procAborted >>

RelayCreated == RelaySimple("Created", MsgCreated)
RelayStopped == RelaySimple("Stopped", MsgStopped)

\* Started arm, first half: start_listener(tx.clone())? installs the handler
RelayStartedInstall ==
    /\ RelayReady
    /\ Head(evQ) = "Started"
    /\ evQ' = Tail(evQ)
    /\ listener' = "installed"
    /\ relayPc' = "sendStarted"
    /\ arms' = Append(arms, "Started")
    /\ UNCHANGED << ssid, newVars, pubStatus, startCmds, stopCmds, relayTx,
                    abortErr, panicked, chanVars, threadVars, sink, stopVars, reqVars,
                    procAborted >>

\* Started arm, start_listener fails: `?` returns before the send
RelayStartListenerFail ==
    /\ RelayReady
    /\ Head(evQ) = "Started"
    /\ evQ' = Tail(evQ)
    /\ arms' = Append(arms, "StartedNoListener")
    /\ UNCHANGED << ssid, newVars, pubStatus, startCmds, stopCmds, relayPc,
                    relayTx, abortErr, panicked, listener, chanVars, threadVars, sink, stopVars, reqVars,
                    procAborted >>

\* Started arm, second half: tx.send(format!("Hosted network {} has started"))
RelayStartedSend ==
    /\ ~procAborted
    /\ relayPc = "sendStarted"
    /\ relayPc' = "idle"
    /\ IF RxAlive
         THEN SendOk(MsgStarted(ssid)) /\ UNCHANGED << panicked, procAborted >>
         ELSE UNCHANGED << chan, sent >> /\ Panics
    /\ UNCHANGED << ssid, newVars, pubVars, relayTx, abortErr, arms, listener,
                    rxState, threadVars, sink, stopVars, reqVars >>

\* Aborted arm: map the error code, send the text, or panic
RelayAborted(err) ==
    /\ RelayReady
    /\ Head(evQ) = "Aborted"
    /\ evQ' = Tail(evQ)
    /\ abortErr' = err
    /\ arms' = Append(arms, "Aborted")
    /\ LET reason == AbortReason(err) IN
         IF reason # "panic" /\ RxAlive
           THEN SendOk(MsgAborted(reason)) /\ UNCHANGED << panicked, procAborted >>
           ELSE UNCHANGED << chan, sent >> /\ Panics
    /\ UNCHANGED << ssid, newVars, pubStatus, startCmds, stopCmds, relayPc,
                    relayTx, listener, rxState, threadVars, sink, stopVars,
                    reqVars >>

\* faulty variant: the thread takes the newest message of the queue first
ThreadRecv_Lifo ==
    /\ ~procAborted
    /\ threadPc = "recv"
    /\ chan # << >>
    /\ threadMsg' = chan[Len(chan)]
    /\ chan' = SubSeq(chan, 1, Len(chan) - 1)
    /\ threadPc' = "output"
    /\ UNCHANGED << ssid, newVars, pubVars, relayVars, listener, rxState, sent,
                    sink, stopVars, reqVars, procAborted >>

\* ------------------------------------------------------ the forwarding thread
\* rx.recv() returns Ok(m)
ThreadRecv ==
    /\ ~procAborted
    /\ threadPc = "recv"
    /\ chan # << >>
    /\ threadMsg' = Head(chan)
    /\ chan' = Tail(chan)
    /\ threadPc' = "output"
    /\ UNCHANGED << ssid, newVars, pubVars, relayVars, listener, rxState, sent,
                    sink, stopVars, reqVars, procAborted >>

\* thread_ui.wifidirect_output(&msg)
ThreadOutput ==
    /\ ~procAborted
    /\ threadPc = "output"
    /\ sink' = Append(sink, threadMsg)
    /\ threadPc' = "recv"
    /\ UNCHANGED << ssid, newVars, pubVars, relayVars, listener, chanVars,
                    threadMsg, stopVars, reqVars, procAborted >>

\* faulty variant: an empty queue is taken for a closed channel
ThreadRecvErr_OnEmpty ==
    /\ ~procAborted
    /\ threadPc = "recv"
    /\ chan = << >>
    /\ threadMsg' = MsgThreadExit
    /\ threadPc' = "exiting"
    /\ UNCHANGED << ssid, newVars, pubVars, relayVars, listener, chanVars,
                    sink, stopVars, reqVars, procAborted >>

\* rx.recv() returns Err: the queue is empty and every Sender is dropped
ThreadRecvErr ==
    /\ ~procAborted
    /\ threadPc = "recv"
    /\ chan = << >>
    /\ Senders = 0
    /\ threadMsg' = MsgThreadExit
    /\ threadPc' = "exiting"
    /\ UNCHANGED << ssid, newVars, pubVars, relayVars, listener, chanVars,
                    sink, stopVars, reqVars, procAborted >>

\* the Err arm: output the exit message and break (the receiver is dropped)
ThreadExit ==
    /\ ~procAborted
    /\ threadPc = "exiting"
    /\ sink' = Append(sink, threadMsg)
    /\ threadPc' = "exited"
    /\ rxState' = "dropped"
    /\ UNCHANGED << ssid, newVars, pubVars, relayVars, listener, chan, sent,
                    threadMsg, stopVars, reqVars, procAborted >>

\* ------------------------------------------------------------------ stop()
InProgress == { c \in Callers : pcStop[c] # "idle" }
\* faulty variant: the mutex does not exclude a second holder
LockFree_NoExclusion == TRUE
\* the mutex can be taken
LockFree == lock = 0
\* faulty variant: every status but Stopped counts as running
IsStarted_NotStopped(st) == st # "Stopped"
\* line 48: status == WiFiDirectAdvertisementPublisherStatus::Started
IsStarted(st) == st = "Started"
\* what stop() writes to the ui itself on each branch (lines 50 and 52-53)
StopText(issued) == IF issued THEN MsgStopped ELSE MsgNotRunning

\* stop() returns r: the guard is dropped and the call is complete
Return(c, rec) ==
    /\ lock' = 0
    /\ UNCHANGED stopCalls
    /\ pcStop' = [pcStop EXCEPT ![c] = "idle"]
    /\ call' = [call EXCEPT ![c] = rec]

\* callers are numbered in the order of their first call
FirstCaller(c) == \A d \in Callers : d < c => (call[d] # NoCall \/ pcStop[d] # "idle")

\* a thread holding &Session calls stop()
StopCall(c) ==
    /\ ~procAborted
    /\ session = "live"
    /\ pcStop[c] = "idle"
    /\ FirstCaller(c)
    /\ stopCalls < MaxStops
    /\ stopCalls' = stopCalls + 1
    /\ pcStop' = [pcStop EXCEPT ![c] = "lock"]
    /\ call' = [call EXCEPT ![c] = [NoCall EXCEPT !.contended = (lock # 0)]]
    /\ UNCHANGED << ssid, newVars, pubVars, relayVars, listener, chanVars,
                    threadVars, sink, lock, reqVars, procAborted >>

\* self.publisher.lock() returns once the mutex is free, then
\* publisher.Status()? succeeds
StopLockStatus(c) ==
    /\ ~procAborted
    /\ pcStop[c] = "lock"
    /\ LockFree
    /\ lock' = c
    /\ call' = [call EXCEPT ![c].status = pubStatus]
    /\ pcStop' = [pcStop EXCEPT ![c] = "branch"]
    /\ UNCHANGED << ssid, newVars, pubVars, relayVars, listener, chanVars,
                    threadVars, sink, stopCalls, reqVars, procAborted >>

\* self.publisher.lock() returns, then publisher.Status()? fails: stop()
\* returns the error
StopStatusErr(c) ==
    /\ ~procAborted
    /\ pcStop[c] = "lock"
    /\ LockFree
    /\ Return(c, [call[c] EXCEPT !.status = "Err", !.result = "err"])
    /\ UNCHANGED << ssid, newVars, pubVars, relayVars, listener, chanVars,
                    threadVars, sink, reqVars, procAborted >>

\* publisher.Stop()? succeeds: a Started publisher becomes Stopped and the
\* Stopped event is raised
StopIssue(c) ==
    /\ ~procAborted
    /\ pcStop[c] = "branch"
    /\ IsStarted(call[c].status)
    /\ stopCmds' = stopCmds + 1
    /\ IF pubStatus = "Started"
         THEN pubStatus' = "Stopped" /\ evQ' = Append(evQ, "Stopped")
         ELSE UNCHANGED << pubStatus, evQ >>
    /\ call' = [call EXCEPT ![c].issued = TRUE]
    /\ pcStop' = [pcStop EXCEPT ![c] = "output"]
    /\ UNCHANGED << ssid, newVars, startCmds, relayVars, listener, chanVars,
                    threadVars, sink, stopCalls, lock, reqVars, procAborted >>

\* faulty variant: the "stopped" line is written before publisher.Stop()? is
\* tried
StopIssueErr_Writes(c) ==
    /\ ~procAborted
    /\ pcStop[c] = "branch"
    /\ IsStarted(call[c].status)
    /\ sink' = Append(sink, MsgStopped)
    /\ Return(c, [call[c] EXCEPT !.wrote = MsgStopped, !.result = "err"])
    /\ UNCHANGED << ssid, newVars, pubVars, relayVars, listener, chanVars,
                    threadVars, reqVars, procAborted >>

\* publisher.Stop()? fails: stop() returns the error
StopIssueErr(c) ==
    /\ ~procAborted
    /\ pcStop[c] = "branch"
    /\ IsStarted(call[c].status)
    /\ Return(c, [call[c] EXCEPT !.result = "err"])
    /\ UNCHANGED << ssid, newVars, pubVars, relayVars, listener, chanVars,
                    threadVars, sink, reqVars, procAborted >>

\* faulty variant: stop() waits for the Stopped event to be handled before returning
StopOutput_WaitsForEvent(c) ==
    /\ ~procAborted
    /\ \/ pcStop[c] = "output"
       \/ pcStop[c] = "branch" /\ ~IsStarted(call[c].status)
    /\ \A i \in DOMAIN evQ : evQ[i] # "Stopped"
    /\ sink' = Append(sink, StopText(call[c].issued))
    /\ Return(c, [call[c] EXCEPT !.wrote = StopText(call[c].issued), !.result = "ok"])
    /\ UNCHANGED << ssid, newVars, pubVars, relayVars, listener, chanVars,
                    threadVars, reqVars, procAborted >>

\* faulty variant: the not-running branch of stop() starts the publisher again
StopOutput_Restarts(c) ==
    /\ ~procAborted
    /\ \/ pcStop[c] = "output"
       \/ pcStop[c] = "branch" /\ ~IsStarted(call[c].status)
    /\ startCmds' = IF call[c].issued THEN startCmds ELSE startCmds + 1
    /\ sink' = Append(sink, StopText(call[c].issued))
    /\ Return(c, [call[c] EXCEPT !.wrote = StopText(call[c].issued), !.result = "ok"])
    /\ UNCHANGED << ssid, newVars, pubStatus, stopCmds, evQ, relayVars, listener,
                    chanVars, threadVars, reqVars, procAborted >>

\* self.ui.wifidirect_output(..) of the branch taken, then Ok(())
StopOutput(c) ==
    /\ ~procAborted
    /\ \/ pcStop[c] = "output"
       \/ pcStop[c] = "branch" /\ ~IsStarted(call[c].status)
    /\ sink' = Append(sink, StopText(call[c].issued))
    /\ Return(c, [call[c] EXCEPT !.wrote = StopText(call[c].issued), !.result = "ok"])
    /\ UNCHANGED << ssid, newVars, pubVars, relayVars, listener, chanVars,
                    threadVars, reqVars, procAborted >>

\* the Session is dropped: the publisher goes, and its handler's Sender with it
DropSession ==
    /\ ~procAborted
    /\ session = "live"
    /\ InProgress = {}
    /\ relayPc = "idle"
    /\ session' = "dropped"
    /\ relayTx' = FALSE
    /\ UNCHANGED << ssid, newPc, newResult, failedStep, executed, pubVars,
                    relayPc, abortErr, panicked, arms, listener, chanVars,
                    threadVars, sink, stopVars, reqVars, procAborted >>

\* -------------------------------------------------- connection_requested_callback
\* the AsyncStatus a completion callback can get
AsyncStatuses == {"Completed", "Error", "Canceled"}

\* requests are numbered in the order they arrive
NextReq(r) == reqPc[r] = "none" /\ \A q \in Reqs : q < r => reqPc[q] # "none"

\* faulty variant: the callback starts the resolution without sending the notification
ConnRequested_NoSend(r, ok) ==
    /\ ~procAborted
    /\ listener = "installed"
    /\ NextReq(r)
    /\ reqPc' = [reqPc EXCEPT ![r] = IF ok THEN "resolving" ELSE "ended"]
    /\ UNCHANGED << ssid, newVars, pubVars, relayVars, listener, chanVars,
                    threadVars, sink, stopVars, asyncStatus, watchSeen,
                    procAborted >>

\* faulty variant: the notification is sent after the fallible steps, so
\* only when they succeeded
ConnRequested_SendAfter(r, ok) ==
    /\ ~procAborted
    /\ listener = "installed"
    /\ NextReq(r)
    /\ IF ok THEN SendOk(MsgConnReq) ELSE UNCHANGED << chan, sent >>
    /\ reqPc' = [reqPc EXCEPT ![r] = IF ok THEN "resolving" ELSE "ended"]
    /\ UNCHANGED << ssid, newVars, pubVars, relayVars, listener, rxState,
                    threadVars, sink, stopVars, asyncStatus, watchSeen,
                    procAborted >>

\* a peer asks to connect: line 65 sends before anything else; then lines
\* 67-73 and 117 start the resolution ("resolving"), or one of them fails and
\* the callback returns the error ("ended")
ConnRequested(r, ok) ==
    /\ ~procAborted
    /\ listener = "installed"
    /\ NextReq(r)
    /\ IF RxAlive
         THEN /\ SendOk(MsgConnReq)
              /\ reqPc' = [reqPc EXCEPT ![r] = IF ok THEN "resolving" ELSE "ended"]
              /\ UNCHANGED << panicked, procAborted >>
         ELSE /\ UNCHANGED << chan, sent >>
              /\ reqPc' = [reqPc EXCEPT ![r] = "ended"]
              /\ Panics
    /\ UNCHANGED << ssid, newVars, pubVars, relayPc, relayTx, abortErr, arms,
                    listener, rxState, threadVars, sink, stopVars, asyncStatus,
                    watchSeen >>

\* faulty variant: the watcher is registered whatever the AsyncStatus is
ResolveNotCompleted_Registers(r, st) ==
    /\ ~procAborted
    /\ reqPc[r] = "resolving"
    /\ reqPc' = [reqPc EXCEPT ![r] = "watched"]
    /\ asyncStatus' = [asyncStatus EXCEPT ![r] = st]
    /\ UNCHANGED << ssid, newVars, pubVars, relayVars, listener, chanVars,
                    threadVars, sink, stopVars, watchSeen, procAborted >>

\* async_operation_completed_callback with AsyncStatus::Completed and the
\* device's endpoint pair read: the per-device watcher is registered
ResolveCompleted(r) ==
    /\ ~procAborted
    /\ reqPc[r] = "resolving"
    /\ reqPc' = [reqPc EXCEPT ![r] = "watched"]
    /\ asyncStatus' = [asyncStatus EXCEPT ![r] = "Completed"]
    /\ UNCHANGED << ssid, newVars, pubVars, relayVars, listener, chanVars,
                    threadVars, sink, stopVars, watchSeen, procAborted >>

\* the completion callback with another status (the `if` of line 76 is
\* skipped), or with Completed and a failing `?` before the registration
ResolveNotCompleted(r, st) ==
    /\ ~procAborted
    /\ reqPc[r] = "resolving"
    /\ reqPc' = [reqPc EXCEPT ![r] = "ended"]
    /\ asyncStatus' = [asyncStatus EXCEPT ![r] = st]
    /\ UNCHANGED << ssid, newVars, pubVars, relayVars, listener, chanVars,
                    threadVars, sink, stopVars, watchSeen, procAborted >>

\* connection_status_changed_callback: reads the status, keeps nothing
WatcherFire(r, cs) ==
    /\ ~procAborted
    /\ reqPc[r] = "watched"
    /\ watchSeen[r] # cs
    /\ watchSeen' = [watchSeen EXCEPT ![r] = cs]
    /\ UNCHANGED << ssid, newVars, pubVars, relayVars, listener, chanVars,
                    threadVars, sink, stopVars, reqPc, asyncStatus, procAborted >>

\* the OS lets go of the listener (the local `listener` was dropped when
\* start_listener returned): the handler and its Sender clone are dropped
ReleaseListener ==
    /\ ~procAborted
    /\ listener = "installed"
    /\ relayPc = "idle"
    /\ listener' = "released"
    /\ UNCHANGED << ssid, newVars, pubVars, relayVars, chanVars, threadVars,
                    sink, stopVars, reqVars, procAborted >>

NextNew == NewStepOk \/ NewStepFail \/ NewSpawn
NextOS == OSStarted \/ OSAborted
NextRelay ==
    \/ RelayStatusErr \/ RelayCreated \/ RelayStopped \/ RelayStartedInstall
    \/ RelayStartListenerFail \/ RelayStartedSend
    \/ (\E e \in ErrorCodes : RelayAborted(e))
NextThread == ThreadRecv \/ ThreadOutput \/ ThreadRecvErr \/ ThreadExit
NextStop ==
    \E c \in Callers : \/ StopCall(c) \/ StopLockStatus(c) \/ StopStatusErr(c)
                       \/ StopIssue(c) \/ StopIssueErr(c) \/ StopOutput(c)
NextConn ==
    \E r \in Reqs : \/ (\E ok \in BOOLEAN : ConnRequested(r, ok))
                    \/ ResolveCompleted(r)
                    \/ (\E st \in AsyncStatuses : ResolveNotCompleted(r, st))
                    \/ (\E cs \in {"Disconnected", "Connected"} : WatcherFire(r, cs))
NextDrop == DropSession \/ ReleaseListener

\* the whole program
Next ==
    \/ NextNew \/ NextOS \/ NextRelay \/ NextThread
    \/ NextStop \/ NextConn \/ NextDrop
Spec == Init /\ [][Next]_vars

\* the session with no peer asking to connect
NextNoConn == NextNew \/ NextOS \/ NextRelay \/ NextThread \/ NextStop \/ NextDrop
SpecStop == Init /\ [][NextNoConn]_vars

\* the session on which stop() is not called
NextNoStop == NextNew \/ NextOS \/ NextRelay \/ NextThread \/ NextConn \/ NextDrop
SpecConn == Init /\ [][NextNoStop]_vars

\* SpecStop with the threads the program runs scheduled fairly: the forwarding
\* thread and each thread inside stop() keep running; the OS callbacks and
\* the application's calls are not forced
StopSteps(c) ==
    \/ StopLockStatus(c) \/ StopStatusErr(c) \/ StopIssue(c)
    \/ StopIssueErr(c) \/ StopOutput(c)
FairStop ==
    /\ SpecStop
    /\ WF_vars(NextThread)
    /\ \A c \in Callers : WF_vars(StopSteps(c))

\* SpecConn with the forwarding thread scheduled fairly, and the thread that
\* called new() running new() to its end
FairConn == SpecConn /\ WF_vars(NextThread) /\ WF_vars(NextNew)

\* ------------------------------------------------------------ properties
Count(seq, m) == Cardinality({ i \in DOMAIN seq : seq[i] = m })
Before(seq, a, i) == \E j \in DOMAIN seq : j < i /\ seq[j] = a
NotStarted == {"Created", "Stopped", "Aborted"}
Completed(c) == pcStop[c] = "idle" /\ call[c].result # "none"

\* C1: a stop() that read status Started writes nothing to the sink itself,
\* and the sink never holds more "Hosted network stopped" messages than Stop
\* commands were issued (one per stop, from the relay's Stopped arm).
C1_StopDefersToRelay ==
    /\ \A c \in Callers :
         (Completed(c) /\ call[c].status = "Started" /\ call[c].result = "ok")
            => (call[c].wrote = "" /\ Count(sink, MsgNotRunning) = 0)
    /\ Count(sink, MsgStopped) <= stopCmds

\* C2: the step by which a stop() that read a status other than Started
\* leaves its branch returns Ok, appends exactly the "Stop called but ... is
\* not running" text to the sink, issues no Stop command, raises no Stopped
\* event and puts nothing on the channel; no earlier step of the call writes.
C2_StopNotRunning ==
    [][\A c \in Callers :
        /\ (pcStop[c] = "branch" /\ call[c].status \in NotStarted
               /\ pcStop'[c] # pcStop[c])
             => /\ pcStop'[c] = "idle"
                /\ call'[c].result = "ok"
                /\ call'[c].wrote = MsgNotRunning
                /\ ~call'[c].issued
                /\ sink' = Append(sink, MsgNotRunning)
                /\ stopCmds' = stopCmds
                /\ pubStatus' = pubStatus
                /\ evQ' = evQ
                /\ sent' = sent
                /\ lock' = 0
        /\ (pcStop[c] \in {"idle", "lock"} /\ pcStop'[c] # pcStop[c])
             => (sink' = sink /\ stopCmds' = stopCmds /\ evQ' = evQ)
      ]_vars

\* C2 witness: a stop() on a publisher still in Created returned Ok after
\* writing the not-running text
C2_Witness ==
    \E c \in Callers :
        /\ Completed(c) /\ call[c].status = "Created" /\ call[c].result = "ok"
        /\ call[c].wrote = MsgNotRunning
        /\ Count(sink, MsgNotRunning) = 1 /\ Count(sink, MsgStopped) = 0

\* C3: on the channel, every "Connection requested..." comes after the
\* "Hosted network {ssid} has started" message.
C3_StartedBeforeConnReq ==
    \A i \in DOMAIN sent :
        sent[i] = MsgConnReq => Before(sent, MsgStarted(ssid), i)

\* C4: in a session whose relay has sent "created" and then "has started",
\* the sink sees "created" before "has started", and every "Hosted network
\* stopped" after "has started".
C4_SinkOrder ==
    (Count(sent, MsgCreated) > 0 /\ Count(sent, MsgStarted(ssid)) > 0)
      => \A i \in DOMAIN sink :
            /\ sink[i] = MsgStarted(ssid) => Before(sink, MsgCreated, i)
            /\ sink[i] = MsgStopped => Before(sink, MsgStarted(ssid), i)

\* C5: stop() calls are serialized by the mutex: at most one caller is
\* between its status read and its return, a caller that read Started holds
\* the lock with no Stop command issued yet, so at most one Stop command
\* is ever issued, and a call that issued none read a status other than
\* Started and wrote the not-running text.
C5_StopsSerialized ==
    /\ Cardinality({ c \in Callers : pcStop[c] \in {"branch", "output"} }) <= 1
    /\ \A c \in Callers :
         /\ pcStop[c] \in {"branch", "output"} => lock = c
         /\ (pcStop[c] = "branch" /\ call[c].status = "Started") => stopCmds = 0
         /\ (Completed(c) /\ call[c].result = "ok" /\ ~call[c].issued)
              => (call[c].status \in NotStarted /\ call[c].wrote = MsgNotRunning)
    /\ stopCmds <= 1

\* C5 witness: two overlapping stop() calls on a Started session: one issued
\* the Stop command, the other called while the mutex was held, then read a
\* status other than Started and wrote the not-running text
C5_Witness ==
    \E c, d \in Callers :
        /\ c # d
        /\ Completed(c) /\ call[c].status = "Started" /\ call[c].issued
        /\ Completed(d) /\ call[d].contended /\ call[d].status = "Stopped"
        /\ call[d].wrote = MsgNotRunning
        /\ stopCmds = 1

\* C6: the Aborted arm sends exactly one "Hosted network aborted: {reason}"
\* with the reason text of the code args.Error() gave (RadioNotAvailable,
\* ResourceInUse, Success); for any other code, or when the call failed, it
\* sends nothing and the callback panics.
C6_AbortedArm ==
    LET aborts == SelectSeq(sent, LAMBDA m :
                     m \notin {MsgCreated, MsgStopped, MsgStarted(ssid), MsgConnReq})
    IN /\ abortErr = "none" => aborts = << >>
       /\ abortErr = "RadioNotAvailable"
            => (aborts = << "Hosted network aborted: Radio not available" >> /\ ~panicked)
       /\ abortErr = "ResourceInUse"
            => (aborts = << "Hosted network aborted: Resource in use" >> /\ ~panicked)
       /\ abortErr = "Success"
            => (aborts = << "Hosted network aborted: Success" >> /\ ~panicked)
       /\ abortErr \in {"Other", "CallFailed"}
            => (aborts = << >> /\ panicked /\ relayPc = "idle")

\* C6 witness: an Aborted event with ResourceInUse was relayed and forwarded
C6_Witness ==
    /\ abortErr = "ResourceInUse"
    /\ Count(sink, "Hosted network aborted: Resource in use") = 1

\* C7: when the per-device watcher of the r-th request is registered, or has
\* observed a connection status, the r-th "Connection requested..." has
\* already been sent on the channel.
C7_NotifiedBeforeWatch ==
    \A r \in Reqs :
        (reqPc[r] = "watched" \/ watchSeen[r] # "none")
          => Count(sent, MsgConnReq) >= r

\* C7 witness: a request was notified, resolved, watched, and its watcher saw
\* the device disconnect
C7_Witness ==
    \E r \in Reqs :
        /\ reqPc[r] = "watched" /\ watchSeen[r] = "Disconnected"
        /\ Count(sent, MsgConnReq) = r

ThreadExitsOnlyWhenClosed ==
    /\ threadPc \in {"exiting", "exited"} => (Senders = 0 /\ chan = << >>)
    /\ threadPc = "exited"
         => /\ sink # << >> /\ sink[Len(sink)] = MsgThreadExit
            /\ Count(sink, MsgThreadExit) = 1
            /\ \A i \in DOMAIN sent : Count(sink, sent[i]) >= Count(sent, sent[i])
    /\ threadPc # "exited" => Count(sink, MsgThreadExit) = 0
    /\ session = "live" => threadPc \in {"recv", "output"}
C9_ThreadExitsIffClosed ==
    /\ []ThreadExitsOnlyWhenClosed
    /\ (threadPc \in {"recv", "output"} /\ Senders = 0) ~> (threadPc = "exited")

\* C9 witness: after stop() and the drop of every Sender the thread forwarded
\* the queued "Hosted network stopped" and exited
C9_Witness ==
    /\ threadPc = "exited"
    /\ stopCmds = 1
    /\ Count(sent, MsgStopped) = 1
    /\ Len(sink) >= 3

\* C10: the publisher mutex is only ever held by a thread inside stop(), and
\* every stop() call returns (unless a panic ended the process).
C10_StopReturns ==
    /\ [](lock # 0 => (lock \in Callers /\ pcStop[lock] \in {"branch", "output"}))
    /\ \A c \in Callers :
         (pcStop[c] # "idle") ~> (pcStop[c] = "idle" \/ procAborted)

\* C10 witness: a stop() that issued the Stop command has returned Ok while
\* the other caller waited for the mutex and the Stopped event is still
\* undelivered
C10_Witness ==
    \E c, d \in Callers :
        /\ Completed(c) /\ call[c].issued /\ call[c].result = "ok"
        /\ pcStop[d] = "lock"
        /\ evQ # << >> /\ evQ[Len(evQ)] = "Stopped"

\* the publisher has left the running states for good
Over == pubStatus \in {"Stopped", "Aborted"}

\* C11: publisher.Start() is issued once, by new(), and by nothing else: a
\* constructed Session has issued exactly one Start, and once the publisher
\* is Stopped or Aborted no step (a stop() call, a callback, an event) issues
\* Start again or takes the publisher out of Stopped/Aborted.
C11_StartOnce ==
    /\ [](startCmds <= 1 /\ (session # "none" => startCmds = 1))
    /\ [][Over => (startCmds' = startCmds /\ Over')]_vars

\* two stop() calls have returned Ok on a publisher that was already Stopped
\* or Aborted, and the one Start of new() is still the only one
C11_Witness ==
    /\ Over
    /\ startCmds = 1
    /\ \A c \in Callers : Completed(c) /\ call[c].result = "ok"
    /\ \E c \in Callers : call[c].status \in {"Stopped", "Aborted"}

\* the notification the status table gives for a Created, Started or
\* Stopped event
RelayText(st) ==
    CASE st = "Created" -> "Hosted network created"
      [] st = "Stopped" -> "Hosted network stopped"
      [] OTHER -> "Hosted network " \o ssid \o " has started"

\* the Created, Started and Stopped events whose arm the handler entered
NotifyingArms ==
    SelectSeq(arms, LAMBDA a : a \in {"Created", "Started", "StartedNoListener", "Stopped"})

\* what the handler has put on the channel for those events
RelaySent ==
    SelectSeq(sent, LAMBDA m : m \in {RelayText("Created"), RelayText("Started"), RelayText("Stopped")})

\* C12: between two runs of the status handler, the notifications it has sent
\* for Created, Started and Stopped events are exactly one per event handled,
\* each with the text of its status (the Started one naming the SSID given
\* to new), in the order the events were handled.
C12_OnePerEvent ==
    relayPc = "idle" =>
        RelaySent = [i \in DOMAIN NotifyingArms |-> RelayText(NotifyingArms[i])]

\* what the forwarding thread has handed to the sink: the sink without the
\* thread's own exit line (stop() is not called in SpecConn)
Forwarded == SelectSeq(sink, LAMBDA m : m # MsgThreadExit)

\* the message the thread has received and not yet handed to the sink
Held == IF threadPc = "output" THEN << threadMsg >> ELSE << >>

\* C13: the messages the thread has delivered, the one it holds and the ones
\* still queued are, in this order, exactly the messages sent (nothing lost,
\* duplicated, reordered or altered), and with the thread scheduled fairly
\* every message sent reaches the sink unless the process is aborted.
C13_DeliveredOnceInOrder ==
    /\ [](Forwarded \o Held \o chan = sent)
    /\ (Forwarded # sent) ~> (procAborted \/ Forwarded = sent)

\* at least three messages were sent, every one of them has reached the sink
\* in the order sent, and the thread has exited
C13_Witness ==
    /\ Len(sent) >= 3
    /\ Forwarded = sent
    /\ sent[1] # sent[2]
    /\ threadPc = "exited"

\* the requests that were delivered to the listener's handler
Delivered == { r \in Reqs : reqPc[r] # "none" }

\* C14: the channel has carried exactly one "Connection requested..." per
\* request delivered to the handler, whatever became of the request (its device
\* id not read, its resolution not started, failed or still pending); the
\* step that takes a request sends its notification, and nothing of the
\* request's resolution has happened before.
C14_OnePerRequest ==
    /\ [](Count(sent, "Connection requested...") = Cardinality(Delivered))
    /\ [][\A r \in Reqs :
            (reqPc[r] = "none" /\ reqPc'[r] # "none")
              => /\ sent' = Append(sent, "Connection requested...")
                 /\ asyncStatus[r] = "none" /\ watchSeen[r] = "none"]_vars

\* a request whose fallible steps failed in the handler, and its notification
\* is on the channel all the same
C14_Witness ==
    \E r \in Reqs :
        /\ reqPc[r] = "ended" /\ asyncStatus[r] = "none"
        /\ Count(sent, "Connection requested...") = r

\* C15: a request has a per-device watcher only if its resolution completed
\* with AsyncStatus Completed, and a step of the completion callback or of
\* a watcher (whatever status it observes) sends nothing and leaves the
\* publisher's status and commands, the lock and the listener as they were.
C15_CallbacksSilent ==
    /\ [](\A r \in Reqs : reqPc[r] = "watched" => asyncStatus[r] = "Completed")
    /\ [][\A r \in Reqs :
            (asyncStatus'[r] # asyncStatus[r] \/ watchSeen'[r] # watchSeen[r])
              => /\ sent' = sent /\ chan' = chan
                 /\ pubStatus' = pubStatus /\ stopCmds' = stopCmds
                 /\ startCmds' = startCmds
                 /\ lock' = lock /\ listener' = listener]_vars

\* a request resolved with Completed, its watcher saw a status other than
\* Disconnected, and the channel has carried the three messages of the relay
\* and the handler only
C15_Witness ==
    \E r \in Reqs :
        /\ reqPc[r] = "watched" /\ watchSeen[r] = "Connected"
        /\ sent = << MsgCreated, MsgStarted(ssid), MsgConnReq >>

\* C16: the step by which a stop() returns an error (Status() or Stop()
\* failed) leaves the sink and the channel as they were, issues no Stop
\* command and leaves the mutex free; the finished call has written nothing.
C16_StopErrorClean ==
    /\ [](\A c \in Callers :
            (Completed(c) /\ call[c].result = "err")
              => call[c].wrote = "" /\ ~call[c].issued)
    /\ [][\A c \in Callers :
            (pcStop[c] # "idle" /\ pcStop'[c] = "idle" /\ call'[c].result = "err")
              => /\ sink' = sink /\ sent' = sent
                 /\ stopCmds' = stopCmds /\ pubStatus' = pubStatus
                 /\ lock' = 0]_vars

\* a stop() failed on publisher.Stop() after reading Started, and the other
\* caller's stop() has taken the mutex since and read the status
C16_Witness ==
    \E c, d \in Callers :
        /\ Completed(c) /\ call[c].result = "err" /\ call[c].status = "Started"
        /\ lock = d /\ pcStop[d] = "branch"

\* C17: while new() has not failed, the receiver is alive whenever a Sender
\* exists or the status handler is about to send, so no send fails: the only
\* step that panics is the Aborted arm on an unmapped or unreadable error code,
\* taken with the receiver alive.
C17_SendNeverFails ==
    /\ [](newResult \in {"running", "ok"} =>
            /\ (Senders > 0 \/ relayPc = "sendStarted") => RxAlive
            /\ panicked => abortErr \in {"Other", "CallFailed"})
    /\ [][(panicked' /\ ~panicked) =>
            (RxAlive /\ abortErr' \in {"Other", "CallFailed"})]_vars

\* the Session is dropped and the status handler's Sender with it; the
\* listener's handler still holds its clone, the thread is still receiving
\* and has forwarded a connection request
C17_Witness ==
    /\ session = "dropped" /\ ~relayTx
    /\ listener = "installed"
    /\ threadPc = "recv" /\ rxState = "thread"
    /\ Count(sink, MsgConnReq) = 1
    /\ ~panicked

\* the number of times start_listener has installed a listener
Installs == Count(arms, "Started")

\* C18: a listener is installed at most once in the life of a session, only
\* by the Started arm of the status handler, so there is none before a
\* Started event was handled; and the "Connection requested..." messages
\* never outnumber the requests delivered.
C18_OneListener ==
    /\ [](Installs <= 1 /\ (listener # "none" => Installs = 1))
    /\ [][(listener' = "installed" /\ listener # "installed")
            => (Head(evQ) = "Started" /\ arms' = Append(arms, "Started"))]_vars
    /\ [](Count(sent, MsgConnReq) <= Cardinality(Delivered))

\* the one listener was installed and later released, after a request that
\* produced one notification
C18_Witness ==
    /\ Installs = 1
    /\ listener = "released"
    /\ Cardinality(Delivered) = MaxReq
    /\ Count(sent, MsgConnReq) = MaxReq

====
